---- MODULE Spec2Model ----
(***************************************************************************)
(* Model of the llama-cord agent cog: bounded rolling history, message     *)
(* chunker, turn scheduler and webhook binding.                            *)
(*                                                                         *)
(* Each component has its own group of variables and its own               *)
(* specification; a specification leaves the other groups at their         *)
(* initial values.                                                         *)
(***************************************************************************)
EXTENDS Integers, Sequences, FiniteSets, TLC

VARIABLES
    \* ---- rolling history (AgentCog.update_chat_history) ----
    history,        \* Agent.history of one agent: sequence of [role, content]
    appended,       \* ghost: every entry appended since the last reset
    \* ---- message chunker (AgentCog.send_chunked_message) ----
    content,        \* the local `content`: text still to be split
    original,       \* ghost: the content the call was made with
    limit,          \* MAX_LENGTH of the call
    chunks,         \* the local list `chunks`
    sent,           \* what webhook.send has been called with, in order
    seps,           \* ghost: per split made, "space" (on a space) or "hard"
    cpc,            \* position in send_chunked_message
    \* ---- turn scheduler (AgentCog.agent_simulation / start_conversation) ----
    templates,      \* the requesting user's registry: sequence of [agent_name, active]
    agents,         \* keys of self.agents, in insertion order
    with_webhook,   \* keys of self.agents whose .webhook has been set
    spc,            \* position in agent_simulation / start_conversation
    agent_names,    \* local agent_names = list(self.agents.keys())
    turns,          \* parameter turns
    random_order,   \* parameter random_order
    speaker,        \* agent whose generation / delivery is awaited
    available,      \* rest of available_agents still to speak in this round
    round,          \* iterations of `for _ in range(turns)` started
    last_speaker,   \* local last_speaker
    message_count,  \* local message_count
    bound,          \* ghost: agents bound to a webhook by this run, in order
    gen_calls,      \* ghost: agents this run called client.chat for, in order
    delivered,      \* ghost: agents whose message this run delivered, in order
    error,          \* the exception that ended the command, "" if none
    result,         \* message count returned by start_conversation, -1 if none
    initial_topic,  \* parameter initial_topic
    current_message,    \* local current_message
    response,       \* local response
    requested,      \* ghost: num_agents of the command
    agents_before,  \* ghost: self.agents when the command began
    gen_input,      \* ghost: the message passed to the last get_ai_response
    last_content,   \* ghost: the text of the last message delivered
    pending_chunks, \* chunks of the response that send_chunked_message has still to send
    outstanding,    \* ghost: client.chat calls of this run that have not come back
    \* ---- webhook binding (utils.get_or_create_webhook / cleanup_webhooks) ----
    guild,          \* live webhooks of the guild: id -> [name, owner, channel]
    next_id,        \* id the platform gives the next webhook created
    wpc,            \* per handler: position in get_or_create_webhook / cleanup_webhooks
    wcall,          \* per handler: arguments [name, channel] of the call in progress
    wexisting,      \* per handler: local existing_webhook (0 = None)
    wtodo,          \* per handler: bot-owned webhooks of the fetched list not yet visited
    wtried,         \* per handler, ghost: [id, owner] of the webhooks webhook.delete() was awaited on
    wfetched,       \* per handler, ghost: bot-owned webhooks in the fetched list
    returned,       \* ghost: [name, channel, id] of every get_or_create_webhook that returned
    ncalls,         \* ghost: calls started
    \* ---- persona registry and parameters (agent.py commands, utils.py config) ----
    file,           \* data/config.json, 'users': user -> [present, templates, params]
    agent_templates,    \* self.agent_templates of the cog
    globals,        \* self.global_model, self.global_temperature, ... of the cog
    default_bot_config, \* self.default_bot_config of the cog
    own,            \* ghost: user -> the list the user's own persona commands produce
    last_cmd,       \* ghost: the last command [cmd, user, name, outcome, before]
    prev_cmd,       \* ghost: the command before the last one
    last_gen,       \* ghost: [user, used, conf, active] of the last generation requested
    ncmds,          \* ghost: commands run
    \* ---- one-off queries and replies (agent_ask / on_message) ----
    agent_table,    \* self.agents: key -> handler that stored the entry, 0 if absent
    hooks_live,     \* names of the webhooks that exist
    apc,            \* per handler: position in agent_ask / on_message
    akind,          \* per handler: "ask" or "reply"
    aarg,           \* per handler: the agent named by the query or the replied-to webhook
    akey,           \* per handler: local agent_name / temp_agent_name, "" while unbound
    aoutcome,       \* per handler, ghost: how the handler ended
    nasks,          \* ghost: handlers started
    ahist,          \* key -> history of the agent stored under the key
    apayload,       \* per handler, ghost: messages passed to client.chat
    ahist_after,    \* per handler, ghost: the agent's history when get_ai_response returned
    simpc,          \* per simulation: position in agent_simulation / start_conversation
    simnames,       \* per simulation: local agent_names
    simmsgs,        \* per simulation: messages delivered
    simhist,        \* per simulation, ghost: key -> history the simulation built
    \* ---- Message.truncate_message (message.py) ----
    tmsg,           \* argument message
    tmax,           \* argument max_length
    tout,           \* the string returned
    tpc,            \* "idle", "call" or "done"
    landed          \* channels the messages of the conversation arrived in

histVars  == <<history, appended>>
chunkVars == <<content, original, limit, chunks, sent, seps, cpc>>
convVars  == <<templates, agents, with_webhook, spc, agent_names, turns,
               random_order, speaker, available, round, last_speaker,
               message_count, bound, gen_calls, delivered, error, result,
               initial_topic, current_message, response, requested,
               agents_before, gen_input, last_content, pending_chunks,
               outstanding>>
hookVars  == <<guild, next_id, wpc, wcall, wexisting, wtodo, wtried, wfetched,
               returned, ncalls>>
regVars   == <<file, agent_templates, globals, default_bot_config, own, last_cmd,
               prev_cmd, last_gen, ncmds>>
askHist   == <<ahist, apayload, ahist_after>>
simVars   == <<simpc, simnames, simmsgs, simhist>>
askVars   == <<agent_table, hooks_live, apc, akind, aarg, akey, aoutcome, nasks,
               askHist, simVars>>
truncVars == <<tmsg, tmax, tout, tpc>>
delivVars == <<landed>>
vars      == <<histVars, chunkVars, convVars, hookVars, regVars, askVars,
               truncVars, delivVars>>

\* what the actions of one component leave alone
convInputs == <<initial_topic, requested, agents_before>>
convFlow   == <<current_message, response, gen_input, last_content>>
convSend   == <<pending_chunks, outstanding>>
notHist  == <<chunkVars, convVars, hookVars, regVars, askVars, truncVars, delivVars>>
notChunk == <<histVars, convVars, hookVars, regVars, askVars, truncVars, delivVars>>
notConv  == <<histVars, chunkVars, hookVars, regVars, askVars, truncVars, delivVars>>
notHook  == <<histVars, chunkVars, convVars, regVars, askVars, truncVars, delivVars>>
notReg   == <<histVars, chunkVars, convVars, hookVars, askVars, truncVars, delivVars>>
notAsk   == <<histVars, chunkVars, convVars, hookVars, regVars, truncVars, delivVars>>
notTrunc == <<histVars, chunkVars, convVars, hookVars, regVars, askVars,
             delivVars>>
notDeliv == <<histVars, chunkVars, convVars, regVars, askVars, truncVars>>

----------------------------------------------------------------------------
(* Generic helpers on sequences *)

Min(a, b) == IF a < b THEN a ELSE b

\* Python s[-k:] for k >= 1
LastN(s, k) == IF Len(s) <= k THEN s ELSE SubSeq(s, Len(s) - k + 1, Len(s))

\* Python s[:k] for k >= 0
FirstN(s, k) == IF Len(s) <= k THEN s ELSE SubSeq(s, 1, k)

\* Python s[k:] for k >= 0
DropN(s, k) == IF k >= Len(s) THEN <<>> ELSE SubSeq(s, k + 1, Len(s))

\* str.lower() on the names the model uses
lower(n) ==
    CASE n = "Agent_politics" -> "agent_politics"
      [] n = "AGENT_POLITICS" -> "agent_politics"
      [] n = "Agent_sports"   -> "agent_sports"
      [] n = "Politics"       -> "politics"
      [] n = "agent_Politics" -> "agent_politics"
      [] OTHER                -> n

----------------------------------------------------------------------------
(* Rolling history *)

HistoryLimit == 10      \* agent.py:145
MaxAppends   == 12      \* appends explored between two resets

Roles    == {"user", "assistant"}
Contents == {"m"}

HistIdle == history = <<>> /\ appended = <<>>

\* mutant: keeps the oldest entries instead of the newest
update_chat_history_keep_oldest(h, role, text) ==
    LET a == Append(h, [role |-> role, content |-> text])
    IN  IF Len(a) > HistoryLimit THEN FirstN(a, HistoryLimit) ELSE a

\* agent.history.append(...); agent.history = agent.history[-10:] if len > 10
update_chat_history(h, role, text) ==
    LET a == Append(h, [role |-> role, content |-> text])
    IN  IF Len(a) > HistoryLimit THEN LastN(a, HistoryLimit) ELSE a

UpdateChatHistory ==
    /\ Len(appended) < MaxAppends
    /\ \E role \in Roles, text \in Contents :
          /\ history'  = update_chat_history(history, role, text)
          /\ appended' = Append(appended, [role |-> role, content |-> text])
    /\ UNCHANGED notHist

\* start_conversation: for agent in self.agents.values(): agent.history = []
ResetHistory ==
    /\ history'  = <<>>
    /\ appended' = <<>>
    /\ UNCHANGED notHist

----------------------------------------------------------------------------
(* Message chunker: AgentCog.send_chunked_message.  A text is a sequence of *)
(* one-character strings.                                                  *)

MaxLen   == 5       \* longest content explored
MaxLimit == 3       \* largest MAX_LENGTH explored (the code fixes 2000)

Whitespace == {" ", "\n"}           \* what str.strip() removes
Chars      == {"a", "b"} \cup Whitespace

Texts == UNION {[1..n -> Chars] : n \in 0..MaxLen}

\* str.rfind(ch, start, end) with 0-based indices; -1 when absent
rfind(s, ch, start, end) ==
    LET hits == {i \in start..(Min(end, Len(s)) - 1) : s[i + 1] = ch}
    IN  IF hits = {} THEN -1 ELSE CHOOSE i \in hits : \A j \in hits : j <= i

RECURSIVE lstrip(_)
lstrip(s) == IF s # <<>> /\ s[1] \in Whitespace THEN lstrip(Tail(s)) ELSE s

RECURSIVE rstrip(_)
rstrip(s) ==
    IF s # <<>> /\ s[Len(s)] \in Whitespace
    THEN rstrip(SubSeq(s, 1, Len(s) - 1)) ELSE s

\* mutant: the rest is kept as it is
strip_nothing(s) == s

\* str.strip()
strip(s) == rstrip(lstrip(s))

\* mutant: the forced split takes one character too many
split_index_off_by_one(s, L) ==
    LET i == rfind(s, " ", 0, L) IN IF i = -1 THEN L + 1 ELSE i

\* split_index = content.rfind(' ', 0, MAX_LENGTH); -1 -> MAX_LENGTH
split_index(s, L) ==
    LET i == rfind(s, " ", 0, L) IN IF i = -1 THEN L ELSE i

ChunkIdle ==
    /\ content = <<>> /\ original = <<>> /\ limit = 0
    /\ chunks = <<>> /\ sent = <<>> /\ seps = <<>> /\ cpc = "idle"

\* the call: any content, any limit
ChunkCall ==
    /\ original \in Texts
    /\ content = original
    /\ limit \in 1..MaxLimit
    /\ chunks = <<>> /\ sent = <<>> /\ seps = <<>> /\ cpc = "start"

\* if len(content) <= MAX_LENGTH: await webhook.send(content=content); return
SendWhole ==
    /\ cpc = "start"
    /\ Len(content) <= limit
    /\ sent' = Append(sent, content)
    /\ cpc'  = "done"
    /\ UNCHANGED <<content, original, limit, chunks, seps, notChunk>>

\* one evaluation of the while condition and, when it holds, of the loop body
SplitStep ==
    /\ \/ cpc = "start" /\ Len(content) > limit
       \/ cpc = "split"
    /\ IF content = <<>>
       THEN /\ cpc' = "send"
            /\ UNCHANGED <<content, chunks, seps>>
       ELSE IF Len(content) <= limit
       THEN /\ chunks' = Append(chunks, content)
            /\ cpc'    = "send"
            /\ UNCHANGED <<content, seps>>
       ELSE LET i == split_index(content, limit)
            IN  /\ chunks'  = Append(chunks, FirstN(content, i))
                /\ content' = strip(DropN(content, i))
                /\ seps'    = Append(seps, IF rfind(content, " ", 0, limit) = -1
                                            THEN "hard" ELSE "space")
                /\ cpc'     = "split"
    /\ UNCHANGED <<original, limit, sent, notChunk>>

\* for chunk in chunks: await webhook.send(content=chunk)
SendChunk ==
    /\ cpc = "send"
    /\ Len(sent) < Len(chunks)
    /\ sent' = Append(sent, chunks[Len(sent) + 1])
    /\ UNCHANGED <<content, original, limit, chunks, seps, cpc, notChunk>>

\* the for loop is exhausted: the coroutine returns
ChunkReturn ==
    /\ cpc = "send"
    /\ Len(sent) = Len(chunks)
    /\ cpc' = "done"
    /\ UNCHANGED <<content, original, limit, chunks, sent, seps, notChunk>>

----------------------------------------------------------------------------
(* Turn scheduler: AgentCog.agent_simulation, create_agents and            *)
(* start_conversation.  An action is the code between two awaits.          *)

MaxTemplates == 3       \* templates in the registry explored
MaxTurns     == 2       \* largest `turns` explored

\* agent_name of the built-in templates, utils.py:310-347
DefaultNames == <<"politics", "sports", "finance", "tech", "entertainment", "science">>

NoSpeaker == "-"

\* agent_name = f"agent_{template.agent_name}"
AgentKey(name) == "agent_" \o name

\* active_templates = [t for t in self.agent_templates if t.active]
IsActive(t) == t.active
active_templates(ts) == SelectSeq(ts, IsActive)

\* all orders random.shuffle can leave a list in
Permutations_of(s) ==
    {p \in [1..Len(s) -> {s[i] : i \in 1..Len(s)}] :
        \A i, j \in 1..Len(s) : i # j => p[i] # p[j]}

\* mutant: the previous speaker stays eligible
eligible_all(names, last) == names

\* available_agents = [name for name in agent_names if name != last_speaker]
eligible(names, last) == SelectSeq(names, LAMBDA n : n # last)

\* mutant: one agent more than there are active templates is let through
not_enough_lenient(num, act) == num > Len(act) + 1

\* if num_agents > len(active_templates)   (agent.py:122)
not_enough(num, act) == num > Len(act)

MaxChunks == 2          \* most chunks a response is sent in

\* mutant: the message counts as delivered with chunks still to send
last_chunk_any(pending) == pending >= 1

\* for chunk in chunks: the iteration that sends the last chunk (agent.py:206)
last_chunk(pending) == pending = 1

\* name in self.agents, the table being the sequence of its keys
has_key(table, key) == \E i \in 1..Len(table) : table[i] = key

\* texts: the topics a command may give and the texts the adapter may return
Topics    == {"topic"}
Responses == {"r1", "r2"}

\* mutant: the next speaker is given the message the last one was given
next_input_stale(current, resp) == current

\* current_message = response   (agent.py:227 and 245)
next_input(current, resp) == resp

\* chunks send_chunked_message cuts a response into: "r1" fits one message,
\* "r2" is longer than MAX_LENGTH (agent.py:186-204)
chunks_of(resp) == IF resp = "r2" THEN MaxChunks ELSE 1

\* mutant: one round too many
rounds_left_off_by_one(r, t) == r <= t

\* for _ in range(turns): another iteration is left after r of them
rounds_left(r, t) == r < t

\* mutant: the guard is missing
no_agents_never(names) == FALSE

\* if not agent_names
no_agents(names) == names = <<>>

ConvLocalsIdle ==
    /\ agent_names = <<>> /\ turns = 0 /\ random_order = FALSE
    /\ speaker = NoSpeaker /\ available = <<>> /\ round = 0
    /\ last_speaker = NoSpeaker /\ message_count = 0
    /\ bound = <<>> /\ gen_calls = <<>> /\ delivered = <<>>
    /\ error = "" /\ result = -1
    /\ initial_topic = "" /\ current_message = "" /\ response = ""
    /\ requested = 0 /\ agents_before = <<>>
    /\ gen_input = "" /\ last_content = ""
    /\ pending_chunks = 0 /\ outstanding = 0

ConvIdle ==
    /\ templates = <<>> /\ agents = <<>> /\ with_webhook = {}
    /\ spc = "idle" /\ ConvLocalsIdle

\* the cog after construction, for any registry of the requesting user: the
\* built-in names in order, the first or the second one replaced by a name
\* the user typed with a capital (agent_create stores names as typed)
ConvStart ==
    /\ \E k \in 0..MaxTemplates : \E act \in [1..k -> BOOLEAN] :
       \E typed \in 0..Min(k, 2) :
          templates = [i \in 1..k |->
                         [agent_name |-> IF i = typed THEN "Politics" ELSE DefaultNames[i],
                          active |-> act[i]]]
    /\ agents = <<>> /\ with_webhook = {}
    /\ spc = "idle" /\ ConvLocalsIdle

Raise(e) ==
    /\ spc' = "raised"
    /\ error' = e

\* agent_simulation up to the await after create_agents (agent.py:261-287)
AgentSimulation ==
    /\ spc \in {"idle", "returned", "raised"}
    /\ \E num \in 0..(MaxTemplates + 1), t \in 0..MaxTurns, rnd \in BOOLEAN,
          topic \in Topics :
        /\ turns' = t
        /\ initial_topic' = topic
        /\ requested' = num
        /\ agents_before' = agents
        /\ current_message' = "" /\ response' = ""
        /\ gen_input' = "" /\ last_content' = ""
        /\ pending_chunks' = 0 /\ outstanding' = 0
        /\ random_order' = rnd
        /\ agent_names' = <<>> /\ speaker' = NoSpeaker /\ available' = <<>>
        /\ round' = 0 /\ last_speaker' = NoSpeaker /\ message_count' = 0
        /\ bound' = <<>> /\ gen_calls' = <<>> /\ delivered' = <<>>
        /\ result' = -1
        /\ LET act == active_templates(templates) IN
           IF templates = <<>>
           THEN Raise("NoTemplates") /\ UNCHANGED <<agents, with_webhook>>
           ELSE IF Len(act) = 0
           THEN Raise("NoActiveTemplates") /\ UNCHANGED <<agents, with_webhook>>
           ELSE IF not_enough(num, act)
           THEN Raise("InsufficientActiveTemplates") /\ UNCHANGED <<agents, with_webhook>>
           ELSE /\ agents' = [i \in 1..num |-> AgentKey(act[((i - 1) % Len(act)) + 1].agent_name)]
                /\ with_webhook' = {}
                /\ spc' = "created"
                /\ error' = ""
    /\ UNCHANGED <<templates, notConv>>

\* start_conversation up to its first await (agent.py:211-216)
StartConversation ==
    /\ spc = "created"
    /\ agent_names' = agents
    /\ IF no_agents(agents)
       THEN Raise("NoAgents")
       ELSE spc' = "webhooks" /\ UNCHANGED error
    /\ UNCHANGED <<templates, agents, with_webhook, turns, random_order, speaker,
                   available, round, last_speaker, message_count, bound,
                   gen_calls, delivered, result, convInputs, convFlow, convSend,
                   notConv>>

\* create_agent_webhooks: one iteration (agent.py:92-108); the webhook is
\* stored with self.agents[name.lower()].webhook = webhook, a KeyError when
\* the table has no key of that spelling
BindAgentWebhook ==
    /\ spc = "webhooks"
    /\ Len(bound) < Len(agent_names)
    /\ LET name == agent_names[Len(bound) + 1] IN
        IF has_key(agents, lower(name))
        THEN /\ bound' = Append(bound, name)
             /\ with_webhook' = with_webhook \cup {lower(name)}
             /\ UNCHANGED <<spc, error>>
        ELSE /\ Raise("KeyError")
             /\ UNCHANGED <<bound, with_webhook>>
    /\ UNCHANGED <<templates, agents, agent_names, turns, random_order,
                   speaker, available, round, last_speaker, message_count,
                   gen_calls, delivered, result, convInputs, convFlow, convSend,
                   notConv>>

\* histories reset, first speaker chosen, its generation requested
\* (agent.py:218-225); agent_names[0] / random.choice raise IndexError on an
\* empty list, which the guard of StartConversation keeps from happening
FirstTurn ==
    /\ spc = "webhooks"
    /\ Len(bound) = Len(agent_names)
    /\ current_message' = initial_topic
    /\ IF agent_names = <<>>
       THEN /\ Raise("IndexError")
            /\ UNCHANGED <<speaker, gen_calls, gen_input, outstanding>>
       ELSE /\ \E first \in {agent_names[i] : i \in 1..Len(agent_names)} :
                /\ random_order \/ first = agent_names[1]
                /\ speaker' = first
                /\ gen_calls' = Append(gen_calls, first)
                /\ gen_input' = initial_topic
            /\ outstanding' = outstanding + 1
            /\ spc' = "gen"
            /\ UNCHANGED error
    /\ UNCHANGED <<templates, agents, with_webhook, agent_names, turns,
                   random_order, available, round, last_speaker, message_count,
                   bound, delivered, result, convInputs, response,
                   last_content, pending_chunks, notConv>>

\* client.chat returned: the response goes to send_chunked_message
\* (agent.py:181-182, 226 and 244)
GenerationReturns ==
    /\ spc = "gen"
    /\ spc' = "send"
    /\ response' \in Responses
    /\ pending_chunks' = chunks_of(response')
    /\ outstanding' = outstanding - 1
    /\ UNCHANGED <<templates, agents, with_webhook, agent_names, turns,
                   random_order, speaker, available, round, last_speaker,
                   message_count, bound, gen_calls, delivered, error, result,
                   convInputs, current_message, gen_input, last_content,
                   notConv>>

\* mutant: the failed call is made again
GenerationRetried ==
    /\ spc = "gen"
    /\ gen_calls' = Append(gen_calls, speaker)
    /\ gen_input' = current_message
    /\ UNCHANGED <<templates, agents, with_webhook, spc, agent_names, turns,
                   random_order, speaker, available, round, last_speaker,
                   message_count, bound, delivered, error, result, convInputs,
                   current_message, response, last_content, convSend,
                   notConv>>

\* client.chat raised: nothing in start_conversation or agent_simulation catches it
GenerationRaises ==
    /\ spc = "gen"
    /\ Raise("Generation")
    /\ outstanding' = outstanding - 1
    /\ UNCHANGED <<templates, agents, with_webhook, agent_names, turns,
                   random_order, speaker, available, round, last_speaker,
                   message_count, bound, gen_calls, delivered, result,
                   convInputs, convFlow, pending_chunks, notConv>>

\* send_chunked_message awaits webhook.send for a chunk that is not the last
\* (agent.py:206-207)
ChunkDelivered ==
    /\ spc = "send"
    /\ speaker \in with_webhook
    /\ ~last_chunk(pending_chunks)
    /\ pending_chunks' = pending_chunks - 1
    /\ UNCHANGED <<templates, agents, with_webhook, spc, agent_names, turns,
                   random_order, speaker, available, round, last_speaker,
                   message_count, bound, gen_calls, delivered, error, result,
                   convInputs, convFlow, outstanding, notConv>>

\* the agent has no webhook: send_chunked_message calls None.send
\* (agent.py:189 and 207), which nothing catches
DeliveryFails ==
    /\ spc = "send"
    /\ speaker \notin with_webhook
    /\ Raise("AttributeError")
    /\ UNCHANGED <<templates, agents, with_webhook, agent_names, turns,
                   random_order, speaker, available, round, last_speaker,
                   message_count, bound, gen_calls, delivered, result,
                   convInputs, convFlow, convSend, notConv>>

\* the last chunk of the message is delivered; bookkeeping, then either the
\* next generation is requested or the loops are exhausted and the count is
\* returned (agent.py:227-250)
Delivered ==
    /\ spc = "send"
    /\ speaker \in with_webhook
    /\ last_chunk(pending_chunks)
    /\ pending_chunks' = pending_chunks - 1
    /\ delivered' = Append(delivered, speaker)
    /\ last_content' = response
    /\ current_message' = next_input(current_message, response)
    /\ message_count' = message_count + 1
    /\ last_speaker' = speaker
    /\ IF available # <<>>
       THEN \* next iteration of `for agent_name in available_agents`
            /\ speaker' = Head(available)
            /\ available' = Tail(available)
            /\ gen_calls' = Append(gen_calls, Head(available))
            /\ gen_input' = current_message'
            /\ outstanding' = outstanding + 1
            /\ spc' = "gen"
            /\ UNCHANGED <<round, result>>
       ELSE IF rounds_left(round, turns) /\ eligible(agent_names, speaker) # <<>>
       THEN \* next iteration of `for _ in range(turns)`
            /\ \E order \in Permutations_of(eligible(agent_names, speaker)) :
                /\ random_order \/ order = eligible(agent_names, speaker)
                /\ speaker' = Head(order)
                /\ available' = Tail(order)
                /\ gen_calls' = Append(gen_calls, Head(order))
            /\ gen_input' = current_message'
            /\ outstanding' = outstanding + 1
            /\ round' = round + 1
            /\ spc' = "gen"
            /\ UNCHANGED result
       ELSE \* no round left, or every remaining round has nobody eligible
            /\ result' = message_count + 1
            /\ round' = turns
            /\ spc' = "returned"
            /\ UNCHANGED <<speaker, available, gen_calls, gen_input, outstanding>>
    /\ UNCHANGED <<templates, agents, with_webhook, agent_names, turns,
                   random_order, bound, error, convInputs, response, notConv>>

----------------------------------------------------------------------------
(* Webhook binding: utils.get_or_create_webhook and utils.cleanup_webhooks, *)
(* called by the command and event handlers of the two cogs.  A handler is  *)
(* a coroutine; an action is the code between two awaits.                   *)

MaxHandlers == 2        \* handlers that may be in progress together
MaxCalls    == 3        \* calls explored in one behaviour
MaxInitial  == 2        \* webhooks the guild starts with

Handlers == 1..MaxHandlers
Channels == {"X", "Y"}
Owners   == {"bot", "other"}
HookNames == {"Agent_politics", "AGENT_POLITICS", "Agent_sports"}

NoCall == [name |-> "", channel |-> ""]

\* mutant: the names are compared as typed
name_matches_exact(w, name, g) == g[w].name = name /\ g[w].owner = "bot"

\* w.name.lower() == name.lower() and w.user and w.user.id == bot_user.id
name_matches(w, name, g) == lower(g[w].name) = lower(name) /\ g[w].owner = "bot"

\* next((w for w in guild_webhooks if ...), None): the first match of the list
existing_webhook(name, g) ==
    LET hits == {w \in DOMAIN g : name_matches(w, name, g)}
    IN  IF hits = {} THEN 0 ELSE CHOOSE w \in hits : \A v \in hits : w <= v

\* bot-owned webhooks of one identity name
BotHooksNamed(k) == {w \in DOMAIN guild : guild[w].owner = "bot" /\ lower(guild[w].name) = k}

HandlersIdle ==
    /\ wpc = [p \in Handlers |-> "idle"]
    /\ wcall = [p \in Handlers |-> NoCall]
    /\ wexisting = [p \in Handlers |-> 0]
    /\ wtodo = [p \in Handlers |-> {}]
    /\ wtried = [p \in Handlers |-> {}]
    /\ wfetched = [p \in Handlers |-> {}]
    /\ returned = <<>>
    /\ ncalls = 0

HookIdle ==
    /\ guild = <<>> /\ next_id = 1
    /\ HandlersIdle

\* a guild holding at most one bot-owned webhook per identity name
HookStart ==
    /\ \E k \in 0..MaxInitial :
         \E g \in [1..k -> [name : HookNames, owner : Owners, channel : Channels]] :
            /\ \A v, w \in 1..k :
                  (g[v].owner = "bot" /\ g[w].owner = "bot"
                     /\ lower(g[v].name) = lower(g[w].name)) => v = w
            /\ guild = g
            /\ next_id = k + 1
    /\ HandlersIdle

Free(p) == wpc[p] \in {"idle", "returned", "raised", "cleaned", "cleanup_raised"}

\* the coroutine of handler p ends in state `how`: its locals are gone
Finish(p, how) ==
    /\ wpc' = [wpc EXCEPT ![p] = how]
    /\ wcall' = [wcall EXCEPT ![p] = NoCall]
    /\ wexisting' = [wexisting EXCEPT ![p] = 0]
    /\ wtodo' = [wtodo EXCEPT ![p] = {}]

\* a handler calls get_or_create_webhook(channel, name, bot_user) and awaits
\* channel.guild.webhooks()   (utils.py:81-84)
BindCall(p) ==
    /\ Free(p)
    /\ ncalls < MaxCalls
    /\ \E n \in HookNames, c \in Channels :
          wcall' = [wcall EXCEPT ![p] = [name |-> n, channel |-> c]]
    /\ wpc' = [wpc EXCEPT ![p] = "lookup"]
    /\ ncalls' = ncalls + 1
    /\ UNCHANGED <<guild, next_id, wexisting, wtodo, wtried, wfetched, returned,
                   notHook>>

\* the list arrives; the code runs to edit, to create, or returns (utils.py:84-101)
BindLookup(p) ==
    /\ wpc[p] = "lookup"
    /\ LET w == existing_webhook(wcall[p].name, guild) IN
        IF w = 0
        THEN /\ wpc' = [wpc EXCEPT ![p] = "create"]
             /\ UNCHANGED <<wcall, wexisting, wtodo, returned>>
        ELSE IF guild[w].channel # wcall[p].channel
        THEN /\ wpc' = [wpc EXCEPT ![p] = "edit"]
             /\ wexisting' = [wexisting EXCEPT ![p] = w]
             /\ UNCHANGED <<wcall, wtodo, returned>>
        ELSE /\ Finish(p, "returned")
             /\ returned' = Append(returned, [name |-> wcall[p].name,
                                channel |-> wcall[p].channel, id |-> w])
    /\ UNCHANGED <<guild, next_id, wtried, wfetched, ncalls,
                   notHook>>

\* await existing_webhook.edit(channel=channel) succeeds; return existing_webhook
BindEdit(p) ==
    /\ wpc[p] = "edit"
    /\ wexisting[p] \in DOMAIN guild
    /\ guild' = [guild EXCEPT ![wexisting[p]].channel = wcall[p].channel]
    /\ Finish(p, "returned")
    /\ returned' = Append(returned, [name |-> wcall[p].name,
                        channel |-> wcall[p].channel, id |-> wexisting[p]])
    /\ UNCHANGED <<next_id, wtried, wfetched, ncalls,
                   notHook>>

\* return await channel.create_webhook(name=name, avatar=avatar_data) succeeds
BindCreate(p) ==
    /\ wpc[p] = "create"
    /\ guild' = (next_id :> [name |-> wcall[p].name, owner |-> "bot",
                             channel |-> wcall[p].channel]) @@ guild
    /\ next_id' = next_id + 1
    /\ Finish(p, "returned")
    /\ returned' = Append(returned, [name |-> wcall[p].name,
                        channel |-> wcall[p].channel, id |-> next_id])
    /\ UNCHANGED <<wtried, wfetched, ncalls, notHook>>

\* the platform refuses the edit or the create (or the webhook is gone):
\* the exception leaves get_or_create_webhook
BindFails(p) ==
    /\ wpc[p] \in {"edit", "create"}
    /\ Finish(p, "raised")
    /\ UNCHANGED <<guild, next_id, wtried, wfetched, returned, ncalls,
                   notHook>>

\* /global cleanup calls cleanup_webhooks(ctx.channel, bot.user) and awaits
\* channel.webhooks()   (global_commands.py:30-33, utils.py:74-76)
CleanupCall(p) ==
    /\ Free(p)
    /\ ncalls < MaxCalls
    /\ \E c \in Channels : wcall' = [wcall EXCEPT ![p] = [name |-> "", channel |-> c]]
    /\ wpc' = [wpc EXCEPT ![p] = "fetch"]
    /\ wtried' = [wtried EXCEPT ![p] = {}]
    /\ wfetched' = [wfetched EXCEPT ![p] = {}]
    /\ ncalls' = ncalls + 1
    /\ UNCHANGED <<guild, next_id, wexisting, wtodo, returned, notHook>>

\* the channel's list arrives; webhooks of other users are skipped
\* (if webhook.user == bot_user)   (utils.py:76-78)
CleanupFetch(p) ==
    /\ wpc[p] = "fetch"
    /\ LET mine == {w \in DOMAIN guild : guild[w].channel = wcall[p].channel
                                          /\ guild[w].owner = "bot"} IN
        /\ wfetched' = [wfetched EXCEPT ![p] = mine]
        /\ IF mine = {}
           THEN Finish(p, "cleaned")
           ELSE /\ wpc' = [wpc EXCEPT ![p] = "delete"]
                /\ wtodo' = [wtodo EXCEPT ![p] = mine]
                /\ UNCHANGED <<wcall, wexisting>>
    /\ UNCHANGED <<guild, next_id, wtried, returned, ncalls,
                   notHook>>

\* await webhook.delete() succeeds for the next bot-owned webhook of the list
CleanupDelete(p) ==
    /\ wpc[p] = "delete"
    /\ \E w \in wtodo[p] :
        /\ w \in DOMAIN guild
        /\ guild' = [v \in DOMAIN guild \ {w} |-> guild[v]]
        /\ wtried' = [wtried EXCEPT ![p] = @ \cup {[id |-> w, owner |-> guild[w].owner]}]
        /\ IF wtodo[p] = {w}
           THEN Finish(p, "cleaned")
           ELSE /\ wtodo' = [wtodo EXCEPT ![p] = @ \ {w}]
                /\ UNCHANGED <<wpc, wcall, wexisting>>
    /\ UNCHANGED <<next_id, wfetched, returned, ncalls,
                   notHook>>

\* await webhook.delete() raises: nothing catches it, the loop is left
CleanupDeleteFails(p) ==
    /\ wpc[p] = "delete"
    /\ \E w \in wtodo[p] :
        wtried' = [wtried EXCEPT ![p] = @ \cup {[id |-> w, owner |-> "bot"]}]
    /\ Finish(p, "cleanup_raised")
    /\ UNCHANGED <<guild, next_id, wfetched, returned, ncalls,
                   notHook>>

----------------------------------------------------------------------------
(* Persona registry and generation parameters: the /agent and /global       *)
(* commands over data/config.json.  None of these handlers awaits between   *)
(* reading and saving the configuration, so a command is one action.        *)

MaxCommands  == 3       \* commands explored in one behaviour
DefaultCount == 2       \* built-in templates loaded by /agent default (the code ships six)

Users      == {"u1", "u2"}
TypedNames == {"politics", "Politics"}      \* names a user types
ArgNames   == TypedNames \cup {DefaultNames[i] : i \in 1..DefaultCount}
Models     == {"llama3.2", "mistral"}
Temperatures == {"0.8", "1.5"}

\* utils.default_bot_config
DefaultParams == [model |-> "llama3.2", temperature |-> "0.8"]

\* utils.default_agent_templates, all active
default_templates ==
    [i \in 1..DefaultCount |-> [agent_name |-> DefaultNames[i], active |-> TRUE]]

NoEntry   == [present |-> FALSE, templates |-> <<>>, params |-> DefaultParams]
NoCommand == [cmd |-> "", user |-> "", name |-> "", outcome |-> "", before |-> <<>>]
NoGen     == [user |-> "", used |-> DefaultParams, conf |-> DefaultParams,
              active |-> TRUE]

\* save_bot_config(agent_templates, bot_config, user_id): the user's entry is rewritten
save_bot_config(f, ts, bc, u) ==
    [f EXCEPT ![u] = [present |-> TRUE, templates |-> ts, params |-> bc]]

\* get_user_config -> load_bot_config([], self.default_bot_config, user_id):
\* a missing user is created with no templates and the cog's default configuration
Materialized(f, u) ==
    IF f[u].present THEN f ELSE save_bot_config(f, <<>>, default_bot_config, u)

Names(ts) == {ts[i].agent_name : i \in 1..Len(ts)}

\* mutant: no duplicate check
create_unchecked(ts, name) == Append(ts, [agent_name |-> name, active |-> TRUE])

\* agent_create: refuse an exact duplicate, else append an active template
create(ts, name) ==
    IF \E i \in 1..Len(ts) : ts[i].agent_name = name
    THEN ts
    ELSE Append(ts, [agent_name |-> name, active |-> TRUE])

\* agent_delete: agent_name = agent_name.lower(); drop every template of that exact name
delete(ts, name) == SelectSeq(ts, LAMBDA t : t.agent_name # lower(name))

\* agent_delete: next((t for t in templates if t.agent_name == agent_name), None)
delete_finds(ts, name) == \E i \in 1..Len(ts) : ts[i].agent_name = lower(name)

\* agent_toggle: index of the first template matching without case, 0 if none
toggle_index(ts, name) ==
    LET hits == {i \in 1..Len(ts) : lower(ts[i].agent_name) = lower(name)}
    IN  IF hits = {} THEN 0 ELSE CHOOSE i \in hits : \A j \in hits : i <= j

\* mutant: the template is switched off, never on again
toggle_off_only(ts, name) ==
    LET i == toggle_index(ts, name)
    IN  IF i = 0 THEN ts ELSE [ts EXCEPT ![i].active = FALSE]

\* agent_toggle: template.active = not template.active
toggle(ts, name) ==
    LET i == toggle_index(ts, name)
    IN  IF i = 0 THEN ts ELSE [ts EXCEPT ![i].active = ~ts[i].active]

RegIdle ==
    /\ file = [u \in Users |-> NoEntry]
    /\ agent_templates = <<>>
    /\ globals = DefaultParams
    /\ default_bot_config = DefaultParams
    /\ own = [u \in Users |-> <<>>]
    /\ last_cmd = NoCommand /\ prev_cmd = NoCommand
    /\ last_gen = NoGen
    /\ ncmds = 0

\* ghost bookkeeping of a command
Logged(cmd, u, name, outcome) ==
    /\ ncmds < MaxCommands
    /\ ncmds' = ncmds + 1
    /\ prev_cmd' = last_cmd
    /\ last_cmd' = [cmd |-> cmd, user |-> u, name |-> name, outcome |-> outcome,
                before |-> file[u].templates]

\* /agent create   (agent.py:324-360)
AgentCreate(u) ==
    \E name \in ArgNames :
        LET f  == Materialized(file, u)
            ts == f[u].templates
            nt == create(ts, name)
        IN  /\ agent_templates' = nt
            /\ IF \E i \in 1..Len(ts) : ts[i].agent_name = name
               THEN file' = f /\ Logged("create", u, name, "duplicate")
               ELSE /\ file' = save_bot_config(f, nt, f[u].params, u)
                    /\ Logged("create", u, name, "created")
            /\ own' = [own EXCEPT ![u] = create(own[u], name)]
            /\ UNCHANGED <<globals, default_bot_config, last_gen, notReg>>

\* /agent delete   (agent.py:364-394)
AgentDelete(u) ==
    \E name \in ArgNames :
        LET f  == Materialized(file, u)
            ts == f[u].templates
        IN  /\ IF delete_finds(ts, name)
               THEN /\ agent_templates' = delete(ts, name)
                    /\ file' = save_bot_config(f, delete(ts, name), f[u].params, u)
                    /\ Logged("delete", u, name, "deleted")
               ELSE /\ agent_templates' = ts
                    /\ file' = f
                    /\ Logged("delete", u, name, "notfound")
            /\ own' = [own EXCEPT ![u] = delete(own[u], name)]
            /\ UNCHANGED <<globals, default_bot_config, last_gen, notReg>>

\* /agent delete_all   (agent.py:397-415); self.agent_templates is not touched
AgentDeleteAll(u) ==
    LET f == Materialized(file, u)
    IN  /\ file' = save_bot_config(f, <<>>, f[u].params, u)
        /\ Logged("delete_all", u, "", "deleted")
        /\ own' = [own EXCEPT ![u] = <<>>]
        /\ UNCHANGED <<agent_templates, globals, default_bot_config, last_gen, notReg>>

\* /agent toggle   (agent.py:597-626)
AgentToggle(u) ==
    \E name \in ArgNames :
        LET f  == Materialized(file, u)
            ts == f[u].templates
        IN  /\ agent_templates' = toggle(ts, name)
            /\ IF toggle_index(ts, name) # 0
               THEN /\ file' = save_bot_config(f, toggle(ts, name), f[u].params, u)
                    /\ Logged("toggle", u, name, "toggled")
               ELSE /\ file' = f
                    /\ Logged("toggle", u, name, "notfound")
            /\ own' = [own EXCEPT ![u] = toggle(own[u], name)]
            /\ UNCHANGED <<globals, default_bot_config, last_gen, notReg>>

\* /agent default   (agent.py:447-479); self.agent_templates is not touched
AgentDefault(u) ==
    LET f == Materialized(file, u)
    IN  /\ file' = save_bot_config(f, default_templates, f[u].params, u)
        /\ Logged("default", u, "", "loaded")
        /\ own' = [own EXCEPT ![u] = default_templates]
        /\ UNCHANGED <<agent_templates, globals, default_bot_config, last_gen, notReg>>

\* update_bot_parameters: the cog's values are saved with the cog's
\* self.agent_templates under the invoking user   (utils.py:265-299)
update_bot_parameters(f, g, u) == save_bot_config(f, agent_templates, g, u)

\* /global parameters set temperature=...   (global_commands.py:119-151)
ParametersSet(u) ==
    \E t \in Temperatures :
        LET f == Materialized(file, u)
            g == [globals EXCEPT !.temperature = t]
        IN  /\ globals' = g
            /\ file' = update_bot_parameters(f, g, u)
            /\ Logged("set", u, "", "updated")
            /\ UNCHANGED <<agent_templates, default_bot_config, own, last_gen, notReg>>

\* /global parameters model   (global_commands.py:68-110); the dictionary
\* get_user_config returned for a user without an entry is the cog's
\* self.default_bot_config itself, which line 93 then writes to
ParametersModel(u) ==
    \E m \in Models :
        LET f == Materialized(file, u)
            g == [globals EXCEPT !.model = m]
        IN  /\ globals' = g
            /\ default_bot_config' =
                  IF file[u].present THEN default_bot_config
                  ELSE [default_bot_config EXCEPT !.model = m]
            /\ file' = update_bot_parameters(f, g, u)
            /\ Logged("model", u, "", "updated")
            /\ UNCHANGED <<agent_templates, own, last_gen, notReg>>

\* /agent ask: setup_temporary_agent finds the template without case, then
\* get_ai_response calls client.chat with the cog's values
\* (agent.py:481-503, 164-176)
AskGenerates(u) ==
    \E name \in ArgNames :
        LET f  == Materialized(file, u)
            ts == f[u].templates
        IN  /\ file' = f
            /\ agent_templates' = ts
            /\ IF toggle_index(ts, name) # 0
               THEN /\ last_gen' = [user |-> u, used |-> globals, conf |-> f[u].params,
                                 active |-> ts[toggle_index(ts, name)].active]
                    /\ Logged("ask", u, name, "generated")
               ELSE /\ UNCHANGED last_gen
                    /\ Logged("ask", u, name, "notfound")
            /\ UNCHANGED <<globals, default_bot_config, own, notReg>>

----------------------------------------------------------------------------
(* One-off queries and replies: agent_ask and on_message store a temporary  *)
(* agent in self.agents, generate, deliver and drop the agent in a finally  *)
(* block.  Handlers are coroutines that interleave at their awaits, with    *)
(* one another and with the simulations that use the same self.agents.      *)

MaxAsks == 3            \* handlers and simulations started in one behaviour
MaxSimMessages == 2     \* messages a simulation delivers

AskNames == {"politics", "sports"}
AskKeys  == {AgentKey(n) : n \in AskNames}
Askers   == {1, 2}      \* handlers of agent_ask and on_message in progress together
Sims     == {1, 2}      \* conversations in progress together

\* the Agent object behind an entry: the handler or simulation that made it
SimId(s) == Cardinality(Askers) + s

\* the text a handler asks with and the text the adapter answers it with
Question(h) == <<"q", h>>
Answer(h)   == <<"a", h>>

\* the message a simulation passes for its i-th message and the answer to it
SimInput(s, i)  == IF i = 1 THEN <<"topic", s>> ELSE <<"s", s, i - 1>>
SimAnswer(s, i) == <<"s", s, i>>

\* messages = [system message] + agent.history   (agent.py:157-162)
Payload(hist) == <<[role |-> "system", content |-> "prompt"]>> \o hist

NoHistories == [k \in AskKeys |-> <<>>]

AskIdle ==
    /\ agent_table = [k \in AskKeys |-> 0]
    /\ hooks_live = {}
    /\ apc = [h \in Askers |-> "idle"]
    /\ akind = [h \in Askers |-> ""]
    /\ aarg = [h \in Askers |-> ""]
    /\ akey = [h \in Askers |-> ""]
    /\ aoutcome = [h \in Askers |-> ""]
    /\ nasks = 0
    /\ ahist = NoHistories
    /\ apayload = [h \in Askers |-> <<>>]
    /\ ahist_after = [h \in Askers |-> <<>>]
    /\ simpc = [s \in Sims |-> "idle"]
    /\ simnames = [s \in Sims |-> <<>>]
    /\ simmsgs = [s \in Sims |-> 0]
    /\ simhist = [s \in Sims |-> NoHistories]

\* mutant: the finally block drops nothing
finally_cleanup_skipped(tbl, key) == tbl

\* finally: if agent_name in self.agents: del self.agents[agent_name]
\* (agent.py:590-593 and 684-687); in agent_ask the name is tested for
\* being bound first
finally_cleanup(tbl, key) ==
    IF key # "" /\ tbl[key] # 0 THEN [tbl EXCEPT ![key] = 0] ELSE tbl

\* the histories left when the entries of tbl that are gone took theirs along
histories_of(tbl, hist) == [k \in AskKeys |-> IF tbl[k] = 0 THEN <<>> ELSE hist[k]]

\* the handler leaves through its finally block
AskFinish(h, how) ==
    /\ agent_table' = finally_cleanup(agent_table, akey[h])
    /\ ahist' = histories_of(finally_cleanup(agent_table, akey[h]), ahist)
    /\ apc' = [apc EXCEPT ![h] = "done"]
    /\ aoutcome' = [aoutcome EXCEPT ![h] = how]
    /\ apayload' = [apayload EXCEPT ![h] = <<>>]
    /\ ahist_after' = [ahist_after EXCEPT ![h] = <<>>]

\* an exception inside the try: agent_ask reports it and awaits the edit
\* (agent.py:572-589), on_message runs its finally and returns (agent.py:684-691)
AskFail(h, why) ==
    IF akind[h] = "ask"
    THEN /\ apc' = [apc EXCEPT ![h] = "failing"]
         /\ aoutcome' = [aoutcome EXCEPT ![h] = why]
         /\ UNCHANGED <<agent_table, askHist>>
    ELSE AskFinish(h, why)

\* get_ai_response up to the await of client.chat: the topic is appended to
\* the history of the agent under the key and the payload is built
\* (agent.py:151-164)
GenerationCalled(h, key, hist) ==
    /\ ahist' = [hist EXCEPT ![key] =
                    update_chat_history(hist[key], "user", Question(h))]
    /\ apayload' = [apayload EXCEPT ![h] = Payload(ahist'[key])]

\* the handler starts and awaits setup_temporary_agent (agent.py:529-539, 629-673)
AskBegin(h) ==
    /\ apc[h] \in {"idle", "done"}
    /\ nasks < MaxAsks
    /\ nasks' = nasks + 1
    /\ \E kind \in {"ask", "reply"}, n \in AskNames :
        /\ akind' = [akind EXCEPT ![h] = kind]
        /\ aarg' = [aarg EXCEPT ![h] = n]
    /\ akey' = [akey EXCEPT ![h] = ""]
    /\ apc' = [apc EXCEPT ![h] = "setup"]
    /\ aoutcome' = [aoutcome EXCEPT ![h] = ""]
    /\ apayload' = [apayload EXCEPT ![h] = <<>>]
    /\ ahist_after' = [ahist_after EXCEPT ![h] = <<>>]
    /\ UNCHANGED <<agent_table, hooks_live, ahist, simVars, notAsk>>

\* setup_temporary_agent returns; a new agent is stored under the key
\* (agent.py:541-543, 677-679).  on_message goes on to get_ai_response,
\* agent_ask awaits an edit first.
SetupReturns(h) ==
    /\ apc[h] = "setup"
    /\ akey' = [akey EXCEPT ![h] = AgentKey(aarg[h])]
    /\ agent_table' = [agent_table EXCEPT ![AgentKey(aarg[h])] = h]
    /\ hooks_live' = hooks_live \cup {AgentKey(aarg[h])}
    /\ IF akind[h] = "ask"
       THEN /\ apc' = [apc EXCEPT ![h] = "stored"]
            /\ ahist' = [ahist EXCEPT ![AgentKey(aarg[h])] = <<>>]
            /\ UNCHANGED apayload
       ELSE /\ apc' = [apc EXCEPT ![h] = "chat"]
            /\ GenerationCalled(h, AgentKey(aarg[h]), [ahist EXCEPT ![AgentKey(aarg[h])] = <<>>])
    /\ UNCHANGED <<akind, aarg, aoutcome, nasks, ahist_after, simVars, notAsk>>

\* setup_temporary_agent raises: nothing was stored and the name is unbound
SetupRaises(h) ==
    /\ apc[h] = "setup"
    /\ AskFail(h, "setup_raised")
    /\ UNCHANGED <<hooks_live, akind, aarg, akey, nasks, simVars, notAsk>>

\* agent_ask: the edit returns and get_ai_response looks the agent up
\* (agent.py:545-547, 151-154); the lookup raises KeyError when another
\* handler has dropped the entry meanwhile
AskEdited(h) ==
    /\ apc[h] = "stored"
    /\ IF agent_table[akey[h]] # 0
       THEN /\ apc' = [apc EXCEPT ![h] = "chat"]
            /\ GenerationCalled(h, akey[h], ahist)
            /\ UNCHANGED <<agent_table, aoutcome, ahist_after>>
       ELSE AskFail(h, "lookup_raised")
    /\ UNCHANGED <<hooks_live, akind, aarg, akey, nasks, simVars, notAsk>>

\* client.chat returns; update_chat_history looks the agent up again and
\* appends the answer (agent.py:181, 143-145), then the response is sent
ChatReturns(h) ==
    /\ apc[h] = "chat"
    /\ IF agent_table[akey[h]] # 0
       THEN /\ apc' = [apc EXCEPT ![h] = "send"]
            /\ ahist' = [ahist EXCEPT ![akey[h]] =
                            update_chat_history(ahist[akey[h]], "assistant", Answer(h))]
            /\ ahist_after' = [ahist_after EXCEPT ![h] = ahist'[akey[h]]]
            /\ UNCHANGED <<agent_table, aoutcome, apayload>>
       ELSE AskFail(h, "lookup_raised")
    /\ UNCHANGED <<hooks_live, akind, aarg, akey, nasks, simVars, notAsk>>

\* client.chat raises
ChatRaises(h) ==
    /\ apc[h] = "chat"
    /\ AskFail(h, "chat_raised")
    /\ UNCHANGED <<hooks_live, akind, aarg, akey, nasks, simVars, notAsk>>

\* the response is delivered: agent_ask awaits the edit that shows the result
\* (agent.py:570), on_message runs its finally (agent.py:684-687)
SendReturns(h) ==
    /\ apc[h] = "send"
    /\ IF akind[h] = "ask"
       THEN /\ apc' = [apc EXCEPT ![h] = "reporting"]
            /\ UNCHANGED <<agent_table, askHist, aoutcome>>
       ELSE AskFinish(h, "ok")
    /\ UNCHANGED <<hooks_live, akind, aarg, akey, nasks, simVars, notAsk>>

\* the delivery raises
SendRaises(h) ==
    /\ apc[h] = "send"
    /\ AskFail(h, "send_raised")
    /\ UNCHANGED <<hooks_live, akind, aarg, akey, nasks, simVars, notAsk>>

\* agent_ask: the last edit returns, the finally block runs (agent.py:570-593)
ReportReturns(h) ==
    /\ apc[h] \in {"reporting", "failing"}
    /\ AskFinish(h, IF apc[h] = "reporting" THEN "ok" ELSE aoutcome[h])
    /\ UNCHANGED <<hooks_live, akind, aarg, akey, nasks, simVars, notAsk>>

\* agent_ask: the last edit raises: inside the try the exception is reported
\* in turn, inside an except clause it leaves the handler through finally
ReportRaises(h) ==
    /\ apc[h] \in {"reporting", "failing"}
    /\ IF apc[h] = "reporting"
       THEN AskFail(h, "report_raised")
       ELSE AskFinish(h, "report_raised")
    /\ UNCHANGED <<hooks_live, akind, aarg, akey, nasks, simVars, notAsk>>

\* ---- simulations over the same self.agents ----

\* the keys of the table in the order create_agents inserted them
SimOrder == <<AgentKey("politics"), AgentKey("sports")>>
keys_of(tbl) == SelectSeq(SimOrder, LAMBDA k : tbl[k] # 0)

\* the agent of the i-th message: the agents take turns (agent.py:224, 237-242)
SimSpeaker(names, i) == names[((i - 1) % Len(names)) + 1]

SimEnds(s, how) ==
    /\ simpc' = [simpc EXCEPT ![s] = how]
    /\ simnames' = [simnames EXCEPT ![s] = <<>>]
    /\ simmsgs' = [simmsgs EXCEPT ![s] = 0]
    /\ simhist' = [simhist EXCEPT ![s] = NoHistories]

\* agent_simulation: create_agents replaces self.agents by new agents
\* (agent.py:128-139), then an edit is awaited
SimCreate(s) ==
    /\ simpc[s] \in {"idle", "returned", "raised"}
    /\ nasks < MaxAsks
    /\ nasks' = nasks + 1
    /\ agent_table' = [k \in AskKeys |-> SimId(s)]
    /\ ahist' = NoHistories
    /\ simhist' = [simhist EXCEPT ![s] = NoHistories]
    /\ simmsgs' = [simmsgs EXCEPT ![s] = 0]
    /\ simnames' = [simnames EXCEPT ![s] = <<>>]
    /\ simpc' = [simpc EXCEPT ![s] = "created"]
    /\ UNCHANGED <<hooks_live, apc, akind, aarg, akey, aoutcome, apayload,
                   ahist_after, notAsk>>

\* start_conversation reads the keys and awaits create_agent_webhooks
\* (agent.py:211-216)
SimStart(s) ==
    /\ simpc[s] = "created"
    /\ IF keys_of(agent_table) = <<>>
       THEN SimEnds(s, "raised")
       ELSE /\ simnames' = [simnames EXCEPT ![s] = keys_of(agent_table)]
            /\ simpc' = [simpc EXCEPT ![s] = "webhooks"]
            /\ UNCHANGED <<simmsgs, simhist>>
    /\ UNCHANGED <<agent_table, hooks_live, apc, akind, aarg, akey, aoutcome,
                   nasks, askHist, notAsk>>

\* the next get_ai_response up to the await of client.chat; before the first
\* one the webhooks are stored and every history is reset (agent.py:108,
\* 218-225, 243, 151-164).  A key that is gone raises KeyError.
SimTurn(s) ==
    /\ simpc[s] \in {"webhooks", "sent"}
    /\ LET first == simpc[s] = "webhooks"
           key   == SimSpeaker(simnames[s], simmsgs[s] + 1)
           gone  == IF first
                    THEN \E i \in 1..Len(simnames[s]) : agent_table[simnames[s][i]] = 0
                    ELSE agent_table[key] = 0
           hist  == IF first THEN NoHistories ELSE ahist
       IN  IF gone
           THEN /\ SimEnds(s, "raised")
                /\ UNCHANGED <<ahist, hooks_live>>
           ELSE /\ ahist' = [hist EXCEPT ![key] =
                    update_chat_history(hist[key], "user", SimInput(s, simmsgs[s] + 1))]
                /\ simhist' = [simhist EXCEPT ![s][key] =
                    update_chat_history(simhist[s][key], "user",
                                        SimInput(s, simmsgs[s] + 1))]
                /\ hooks_live' = IF first
                                 THEN hooks_live \cup {simnames[s][i] : i \in 1..Len(simnames[s])}
                                 ELSE hooks_live
                /\ simpc' = [simpc EXCEPT ![s] = "gen"]
                /\ UNCHANGED <<simnames, simmsgs>>
    /\ UNCHANGED <<agent_table, apc, akind, aarg, akey, aoutcome, nasks,
                   apayload, ahist_after, notAsk>>

\* client.chat returns to the simulation: the answer is appended to the
\* history of the agent under the key and sent through its webhook
\* (agent.py:181, 143-145, 226 and 244)
SimChatReturns(s) ==
    /\ simpc[s] = "gen"
    /\ LET key == SimSpeaker(simnames[s], simmsgs[s] + 1) IN
       IF agent_table[key] = 0
       THEN /\ SimEnds(s, "raised")
            /\ UNCHANGED ahist
       ELSE /\ ahist' = [ahist EXCEPT ![key] =
                update_chat_history(ahist[key], "assistant", SimAnswer(s, simmsgs[s] + 1))]
            /\ simhist' = [simhist EXCEPT ![s][key] =
                update_chat_history(simhist[s][key], "assistant",
                                    SimAnswer(s, simmsgs[s] + 1))]
            /\ simpc' = [simpc EXCEPT ![s] = "send"]
            /\ UNCHANGED <<simnames, simmsgs>>
    /\ UNCHANGED <<agent_table, hooks_live, apc, akind, aarg, akey, aoutcome,
                   nasks, apayload, ahist_after, notAsk>>

\* the message is delivered; the simulation goes on or returns (agent.py:245-250)
SimDelivered(s) ==
    /\ simpc[s] = "send"
    /\ IF simmsgs[s] + 1 < MaxSimMessages /\ Len(simnames[s]) > 1
       THEN /\ simpc' = [simpc EXCEPT ![s] = "sent"]
            /\ simmsgs' = [simmsgs EXCEPT ![s] = simmsgs[s] + 1]
            /\ UNCHANGED <<simnames, simhist>>
       ELSE SimEnds(s, "returned")
    /\ UNCHANGED <<agent_table, hooks_live, apc, akind, aarg, akey, aoutcome,
                   nasks, askHist, notAsk>>

----------------------------------------------------------------------------
(* Message.truncate_message of the chat cog (message.py), a pure function of *)
(* its arguments, applied to every message text and limit of the bounds.     *)

MaxTruncate == 3        \* largest max_length explored

Ellipsis == <<".", ".", ".">>

\* truncate_message(message, max_length)   (message.py:97-100)
truncate_message(message, max_length) ==
    IF Len(message) <= max_length
    THEN message
    ELSE FirstN(message, max_length) \o Ellipsis

TruncIdle == tmsg = <<>> /\ tmax = 0 /\ tout = <<>> /\ tpc = "idle"

TruncCall ==
    /\ tmsg \in Texts
    /\ tmax \in 0..MaxTruncate
    /\ tout = <<>>
    /\ tpc = "call"

\* the call returns
TruncateMessage ==
    /\ tpc = "call"
    /\ tout' = truncate_message(tmsg, tmax)
    /\ tpc' = "done"
    /\ UNCHANGED <<tmsg, tmax, notTrunc>>

----------------------------------------------------------------------------
(* A conversation delivering through a webhook that other handlers bind     *)
(* again.  The conversation is the caller whose get_or_create_webhook       *)
(* returned first; it keeps the webhook object it was given                 *)
(* (agent.py:108) and sends every message through it (agent.py:226, 244).   *)

MaxDeliveries == 2      \* messages the conversation sends

DelivIdle == landed = <<>>

\* the webhook, the identity name and the channel of the conversation
ConvHook    == returned[1].id
ConvName    == lower(returned[1].name)
ConvChannel == returned[1].channel

\* the binds returned to callers for the identity name k, in order
binds_of(k) == SelectSeq(returned, LAMBDA r : lower(r.name) = k)

\* the conversation binds before any other handler starts; from then on
\* handlers call get_or_create_webhook whenever they are free
RebindCall(p) ==
    /\ returned # <<>> \/ \A q \in Handlers : Free(q)
    /\ BindCall(p)

\* await webhook.send(content=...) (agent.py:207): the platform posts the
\* message in the channel the webhook is in at that moment
ConvDeliver ==
    /\ returned # <<>>
    /\ Len(landed) < MaxDeliveries
    /\ ConvHook \in DOMAIN guild
    /\ landed' = Append(landed, guild[ConvHook].channel)
    /\ UNCHANGED <<hookVars, notDeliv>>

----------------------------------------------------------------------------
InitHistory == HistIdle /\ ChunkIdle /\ ConvIdle /\ HookIdle /\ RegIdle /\ AskIdle
    /\ TruncIdle /\ DelivIdle
NextHistory == UpdateChatHistory \/ ResetHistory
SpecHistory == InitHistory /\ [][NextHistory]_vars

InitChunk == HistIdle /\ ChunkCall /\ ConvIdle /\ HookIdle /\ RegIdle /\ AskIdle
    /\ TruncIdle /\ DelivIdle
NextChunk == SendWhole \/ SplitStep \/ SendChunk \/ ChunkReturn
SpecChunk == InitChunk /\ [][NextChunk]_vars

InitConversation == HistIdle /\ ChunkIdle /\ ConvStart /\ HookIdle /\ RegIdle /\ AskIdle
    /\ TruncIdle /\ DelivIdle
NextConversation ==
    \/ AgentSimulation \/ StartConversation \/ BindAgentWebhook \/ FirstTurn
    \/ GenerationReturns \/ GenerationRaises \/ ChunkDelivered \/ DeliveryFails
    \/ Delivered
SpecConversation == InitConversation /\ [][NextConversation]_vars

\* get_or_create_webhook calls made one after the other
InitBind == HistIdle /\ ChunkIdle /\ ConvIdle /\ HookStart /\ RegIdle /\ AskIdle
    /\ TruncIdle /\ DelivIdle
NextBind ==
    \/ BindCall(1) \/ BindLookup(1) \/ BindEdit(1) \/ BindCreate(1) \/ BindFails(1)
SpecBind == InitBind /\ [][NextBind]_vars

\* handlers of the event loop in progress together
InitWebhook == HistIdle /\ ChunkIdle /\ ConvIdle /\ HookStart /\ RegIdle /\ AskIdle
    /\ TruncIdle /\ DelivIdle
NextWebhook ==
    \E p \in Handlers :
        \/ BindCall(p) \/ BindLookup(p) \/ BindEdit(p) \/ BindCreate(p) \/ BindFails(p)
        \/ CleanupCall(p) \/ CleanupFetch(p) \/ CleanupDelete(p) \/ CleanupDeleteFails(p)
SpecWebhook == InitWebhook /\ [][NextWebhook]_vars

\* the process is started again over the same data/config.json: the cog is
\* constructed anew (agent.py:32-55); no command writes the entry 'default'
\* that __init__ reads its values from
Restart ==
    /\ ncmds < MaxCommands
    /\ ncmds' = ncmds + 1
    /\ agent_templates' = <<>>
    /\ globals' = DefaultParams
    /\ default_bot_config' = DefaultParams
    /\ prev_cmd' = last_cmd
    /\ last_cmd' = [NoCommand EXCEPT !.cmd = "restart"]
    /\ UNCHANGED <<file, own, last_gen, notReg>>

\* the commands of two users, one after the other in any order
InitRegistry == HistIdle /\ ChunkIdle /\ ConvIdle /\ HookIdle /\ RegIdle /\ AskIdle
    /\ TruncIdle /\ DelivIdle
NextRegistry ==
    \E u \in Users :
        \/ AgentCreate(u) \/ AgentDelete(u) \/ AgentDeleteAll(u) \/ AgentToggle(u)
        \/ AgentDefault(u) \/ ParametersSet(u) \/ ParametersModel(u)
        \/ AskGenerates(u)
    \/ Restart
SpecRegistry == InitRegistry /\ [][NextRegistry]_vars

\* queries and replies in progress together
InitAsk == HistIdle /\ ChunkIdle /\ ConvIdle /\ HookIdle /\ RegIdle /\ AskIdle
    /\ TruncIdle /\ DelivIdle
NextAsk ==
    \E h \in Askers :
        \/ AskBegin(h) \/ SetupReturns(h) \/ SetupRaises(h) \/ AskEdited(h)
        \/ ChatReturns(h) \/ ChatRaises(h) \/ SendReturns(h) \/ SendRaises(h)
        \/ ReportReturns(h) \/ ReportRaises(h)
SpecAsk == InitAsk /\ [][NextAsk]_vars

\* queries, replies and simulations in progress together; the awaited calls
\* return, so that a handler fails only where it finds its entry gone
NextShared ==
    \/ \E h \in Askers :
          \/ AskBegin(h) \/ SetupReturns(h) \/ AskEdited(h) \/ ChatReturns(h)
          \/ SendReturns(h) \/ ReportReturns(h)
    \/ \E s \in Sims :
          \/ SimCreate(s) \/ SimStart(s) \/ SimTurn(s) \/ SimChatReturns(s)
          \/ SimDelivered(s)
SpecShared == InitAsk /\ [][NextShared]_vars

\* one conversation and the handlers that bind webhooks beside it, in a
\* guild without webhooks
InitRebind == HistIdle /\ ChunkIdle /\ ConvIdle /\ HookIdle /\ RegIdle /\ AskIdle
    /\ TruncIdle /\ DelivIdle
NextRebind ==
    \/ \E p \in Handlers :
          \/ RebindCall(p) \/ BindLookup(p) \/ BindEdit(p) \/ BindCreate(p)
          \/ BindFails(p)
    \/ ConvDeliver
SpecRebind == InitRebind /\ [][NextRebind]_vars

\* truncate_message on every message and limit
InitTruncate ==
    HistIdle /\ ChunkIdle /\ ConvIdle /\ HookIdle /\ RegIdle /\ AskIdle /\ TruncCall
    /\ DelivIdle
NextTruncate == TruncateMessage
SpecTruncate == InitTruncate /\ [][NextTruncate]_vars

----------------------------------------------------------------------------
\* C1: after every update_chat_history call the history has at most 10
\* entries and is the last min(10, n) of the n entries appended since the
\* last reset, in their original order.
C1_HistoryIsLastTen ==
    /\ Len(history) <= HistoryLimit
    /\ Len(history) = Min(HistoryLimit, Len(appended))
    /\ history = LastN(appended, HistoryLimit)

\* an eleventh entry has been appended and the oldest one evicted
C1_Witness ==
    /\ Len(appended) > HistoryLimit
    /\ Len(history) = HistoryLimit
    /\ history[1] # appended[1]

\* start_conversation has been entered by the current command
StartConversationCalled ==
    \/ spc \in {"webhooks", "gen", "send", "returned"}
    \/ spc = "raised" /\ error \in {"NoAgents", "Generation", "IndexError"}

\* C2: start_conversation on an empty agent table fails with NoAgents, and
\* no webhook has been bound, no generation requested and no message
\* delivered.
C2_NoAgentsFailsFirst ==
    (StartConversationCalled /\ agents = <<>>) =>
        /\ spc = "raised" /\ error = "NoAgents"
        /\ bound = <<>> /\ with_webhook = {}
        /\ gen_calls = <<>> /\ delivered = <<>>

\* a simulation of zero agents got past create_agents and was refused
C2_Witness ==
    /\ spc = "raised" /\ error = "NoAgents"
    /\ agents = <<>> /\ active_templates(templates) # <<>>

\* C3: with exactly one agent start_conversation returns a message count of
\* 1 and has delivered exactly one message, for every turns and either order.
C3_OneAgentOneMessage ==
    (spc = "returned" /\ Len(agent_names) = 1) =>
        /\ result = 1
        /\ message_count = 1
        /\ Len(delivered) = 1
        /\ Len(gen_calls) = 1

\* a one-agent conversation of several turns in random order has returned
C3_Witness ==
    /\ spc = "returned" /\ Len(agent_names) = 1
    /\ turns = MaxTurns /\ random_order
    /\ delivered = <<agent_names[1]>>

AgentA == AgentKey(DefaultNames[1])
AgentB == AgentKey(DefaultNames[2])

TwoAgentsTwoTurns ==
    /\ spc = "returned"
    /\ agent_names = <<AgentA, AgentB>>
    /\ turns = 2
    /\ ~random_order

\* C4 as stated: agents {A,B}, turns = 2, sequential order: the speakers
\* start A, B, A, B and the message count is 5.
C4_Original ==
    TwoAgentsTwoTurns =>
        /\ result = 5
        /\ Len(delivered) >= 4
        /\ SubSeq(delivered, 1, 4) = <<AgentA, AgentB, AgentA, AgentB>>

\* C4 amended: agents {A,B}, turns = 2, sequential order: the speakers are
\* exactly A, B, A and the message count is 3 (1 initial + 1 in each round).
C4_TwoAgentsAlternate ==
    TwoAgentsTwoTurns =>
        /\ delivered = <<AgentA, AgentB, AgentA>>
        /\ gen_calls = delivered
        /\ result = 3

\* the two-agent, two-turn sequential conversation has returned
C4_Witness ==
    /\ TwoAgentsTwoTurns
    /\ Len(delivered) = 3

\* C5: with at least two agents no two consecutive delivered messages come
\* from the same agent, also across the end of a round.
C5_NoImmediateRepeat ==
    Len(agent_names) >= 2 =>
        \A i \in 1..(Len(delivered) - 1) : delivered[i] # delivered[i + 1]

\* a shuffled three-agent conversation has gone through two rounds, the
\* second one opened by the agent that did not close the first
C5_Witness ==
    /\ spc = "returned" /\ random_order
    /\ Len(agent_names) = 3 /\ Len(delivered) = 5
    /\ delivered[1] # agent_names[1]
    /\ delivered[4] = delivered[2]

Identities == {lower(n) : n \in HookNames}

\* the calls for identity k that returned, oldest first
ReturnedFor(k) == SelectSeq(returned, LAMBDA r : lower(r.name) = k)

\* C6: once get_or_create_webhook calls made one after the other have
\* returned for an identity name (compared without case), exactly one
\* bot-owned webhook of that name exists, every call returned it, and it is
\* bound to the channel of the most recent call.
C6_OneWebhookLastChannel ==
    \A k \in Identities :
        LET rs == ReturnedFor(k) IN
        rs # <<>> =>
            /\ Cardinality(BotHooksNamed(k)) = 1
            /\ \A i \in 1..Len(rs) : BotHooksNamed(k) = {rs[i].id}
            /\ guild[rs[Len(rs)].id].channel = rs[Len(rs)].channel

\* bind to X, then bind the same name in another letter case to Y: both calls
\* returned the one webhook, which is now in Y
C6_Witness ==
    /\ Len(returned) = 2
    /\ returned[1].name = "Agent_politics" /\ returned[1].channel = "X"
    /\ returned[2].name = "AGENT_POLITICS" /\ returned[2].channel = "Y"
    /\ returned[1].id = returned[2].id
    /\ BotHooksNamed("agent_politics") = {returned[2].id}
    /\ guild[returned[2].id].channel = "Y"

\* C7: in every reachable state, handlers interleaving or not, at most one
\* live bot-owned webhook exists per identity name.
C7_AtMostOnePerName ==
    \A k \in Identities : Cardinality(BotHooksNamed(k)) <= 1

\* C8: cleanup_webhooks never raises, has awaited webhook.delete() on every
\* bot-owned webhook of the fetched list when it ends, and on no webhook of
\* another owner.
C8_CleanupBestEffort ==
    \A p \in Handlers :
        /\ wpc[p] # "cleanup_raised"
        /\ wpc[p] = "cleaned" => wfetched[p] = {t.id : t \in wtried[p]}
        /\ \A t \in wtried[p] : t.owner = "bot"

\* C9: every segment passed to webhook.send is at most MAX_LENGTH long, and
\* a content that already fits is sent as exactly one segment equal to it.
C9_SegmentsWithinLimit ==
    /\ \A i \in 1..Len(sent) : Len(sent[i]) <= limit
    /\ (cpc = "done" /\ Len(original) <= limit) => sent = <<original>>

\* a call that had to force a split mid-word has sent a full-length segment
\* followed by the rest
C9_Witness ==
    /\ cpc = "done"
    /\ Len(original) > limit
    /\ Len(sent) >= 2
    /\ Len(sent[1]) = limit
    /\ rfind(original, " ", 0, limit) = -1

\* C10: for a non-empty content no segment passed to webhook.send is empty.
C10_NoEmptySegment ==
    original # <<>> => \A i \in 1..Len(sent) : sent[i] # <<>>

\* the segments put back together: a single space where the split was made
\* on a space, nothing where it was forced
RECURSIVE Rejoin(_, _)
Rejoin(segs, kinds) ==
    IF segs = <<>> THEN <<>>
    ELSE IF Len(segs) = 1 \/ kinds = <<>> THEN Head(segs)
    ELSE Head(segs) \o (IF Head(kinds) = "space" THEN <<" ">> ELSE <<>>)
                    \o Rejoin(Tail(segs), Tail(kinds))

\* C11: when send_chunked_message is done, the segments sent, rejoined with
\* one space at each split on a space and nothing at each forced split, are
\* the original content.
C11_RejoinIsOriginal ==
    cpc = "done" => Rejoin(sent, seps) = original

\* no two templates of the list carry the same exact name
UniqueNames(ts) == \A i, j \in 1..Len(ts) : ts[i].agent_name = ts[j].agent_name => i = j

\* C12: a create with a name that exactly equals a name already in the user's
\* list is refused as a duplicate and leaves the user's list, persisted and in
\* memory, as it was; no list ever holds the same exact name twice.
C12_DuplicateCreateRefused ==
    /\ (last_cmd.cmd = "create" /\ last_cmd.name \in Names(last_cmd.before)) =>
          /\ last_cmd.outcome = "duplicate"
          /\ file[last_cmd.user].templates = last_cmd.before
          /\ agent_templates = last_cmd.before
    /\ \A u \in Users : UniqueNames(file[u].templates)
    /\ UniqueNames(agent_templates)

\* a create was refused while the other case variant of the name is present too
C12_Witness ==
    /\ last_cmd.cmd = "create"
    /\ last_cmd.outcome = "duplicate"
    /\ Len(last_cmd.before) >= 2

\* C13: two toggles of the same name in a row by the same user restore every
\* template's active value; a toggle that matches no template reports
\* not-found and changes nothing.
C13_ToggleInvolution ==
    /\ (/\ last_cmd.cmd = "toggle" /\ prev_cmd.cmd = "toggle"
        /\ last_cmd.user = prev_cmd.user /\ last_cmd.name = prev_cmd.name) =>
          file[last_cmd.user].templates = prev_cmd.before
    /\ last_cmd.cmd = "toggle" =>
          (last_cmd.outcome = "notfound" <=>
              toggle_index(last_cmd.before, last_cmd.name) = 0)
    /\ (last_cmd.cmd = "toggle" /\ last_cmd.outcome = "notfound") =>
          file[last_cmd.user].templates = last_cmd.before

\* a template was toggled off and on again
C13_Witness ==
    /\ last_cmd.cmd = "toggle" /\ prev_cmd.cmd = "toggle"
    /\ last_cmd.user = prev_cmd.user /\ last_cmd.name = prev_cmd.name
    /\ last_cmd.outcome = "toggled"
    /\ \E i \in 1..Len(last_cmd.before) : ~last_cmd.before[i].active

\* C14: a delete removes exactly the templates named as typed when one is
\* present, whatever its letter case, and reports not-found, changing nothing,
\* only when none is present.
C14_DeleteExactName ==
    last_cmd.cmd = "delete" =>
        IF last_cmd.name \in Names(last_cmd.before)
        THEN /\ last_cmd.outcome = "deleted"
             /\ file[last_cmd.user].templates =
                   SelectSeq(last_cmd.before, LAMBDA t : t.agent_name # last_cmd.name)
        ELSE /\ last_cmd.outcome = "notfound"
             /\ file[last_cmd.user].templates = last_cmd.before

\* C15: the list persisted for each user is the one the user's own persona
\* commands produce.
C15_RegistryPerUser ==
    \A u \in Users : file[u].templates = own[u]

\* C16: a generation requested by a user runs with the model and sampling
\* parameters persisted for that user.
C16_GenerationUsesOwnParameters ==
    last_gen.user # "" => last_gen.used = last_gen.conf

CountActive == Len(active_templates(templates))

\* the command asked for more agents than there are active templates
AskedTooMany == spc # "idle" /\ requested > CountActive

\* the command failed before anything was created, generated or delivered
FailedUntouched ==
    /\ spc = "raised"
    /\ agents = agents_before
    /\ gen_calls = <<>> /\ delivered = <<>>

\* C17 as stated: asking for more agents than there are active templates
\* always fails with InsufficientActiveTemplates, also with none active.
C17_Original ==
    AskedTooMany => (FailedUntouched /\ error = "InsufficientActiveTemplates")

\* C17: asking for more agents than there are active templates fails, leaving
\* the agent table as it was and with no generation call or delivery: with
\* InsufficientActiveTemplates when some template is active, with
\* NoActiveTemplates when the registry has templates but none is active, with
\* the no-agents notice of agent_simulation when the registry is empty.
C17_TooManyRequestedFails ==
    AskedTooMany =>
        /\ FailedUntouched
        /\ error = IF templates = <<>> THEN "NoTemplates"
                   ELSE IF CountActive = 0 THEN "NoActiveTemplates"
                   ELSE "InsufficientActiveTemplates"

\* a simulation that had created agents is followed by one that asks for too many
C17_Witness ==
    /\ AskedTooMany
    /\ error = "InsufficientActiveTemplates"
    /\ agents_before # <<>>

\* C19: the generation in progress was given the initial topic when it is the
\* first of the conversation, and otherwise the text of the message delivered
\* last, the response handed to delivery for the message before it.
C19_OutputFeedsNextInput ==
    (spc \in {"gen", "send"}) =>
        /\ Len(gen_calls) = Len(delivered) + 1
        /\ gen_input = IF Len(gen_calls) = 1 THEN initial_topic ELSE last_content

\* a third generation is in progress, given the text of the second message
C19_Witness ==
    /\ spc = "gen"
    /\ Len(gen_calls) >= 3
    /\ gen_input = last_content /\ gen_input # initial_topic

\* C20: a pending generation either returns or raises; when it raises the
\* command ends with that exception, the call is not made again and what was
\* delivered stays; after it only a new command follows, no later turn.
C20_GenerationFailureAborts ==
    [][/\ spc = "gen" =>
            \/ spc' = "send" /\ gen_calls' = gen_calls
            \/ /\ spc' = "raised" /\ error' = "Generation"
               /\ gen_calls' = gen_calls
               /\ delivered' = delivered /\ last_content' = last_content
       /\ (spc = "raised" /\ error = "Generation") =>
            /\ spc' \in {"created", "raised"}
            /\ gen_calls' = <<>> /\ delivered' = <<>>]_vars

\* a generation failed after two messages had been delivered
C20_Witness ==
    /\ spc = "raised" /\ error = "Generation"
    /\ Len(delivered) >= 2
    /\ Len(gen_calls) = Len(delivered) + 1

\* C18: at the step a query or reply handler finishes after having stored a
\* temporary agent, the key it stored is absent from the agent table, whether
\* it succeeded or raised, and no webhook is deleted by that step.
C18_TemporaryAgentRemoved ==
    [][\A h \in Askers :
          (apc[h] # "done" /\ apc'[h] = "done" /\ akey[h] # "") =>
              /\ agent_table'[akey[h]] = 0
              /\ hooks_live \subseteq hooks_live'
              /\ akey[h] \in hooks_live']_vars

\* one handler ended well and another by an exception, both having stored
\* their agent, and the table is empty
C18_Witness ==
    /\ \E h \in Askers : apc[h] = "done" /\ akey[h] # "" /\ aoutcome[h] = "ok"
    /\ \E h \in Askers : apc[h] = "done" /\ akey[h] # "" /\ aoutcome[h] = "chat_raised"
    /\ \A k \in AskKeys : agent_table[k] = 0

\* C21: within a run of start_conversation never more than one client.chat
\* call is outstanding, and the step that requests the generation of the next
\* message is the one that delivers the last chunk of the message before it,
\* whose generation has come back.
C21_OneTurnAtATime ==
    /\ [](outstanding <= 1)
    /\ [][(Len(gen_calls') > Len(gen_calls) /\ gen_calls # <<>>) =>
              /\ outstanding = 0
              /\ spc = "send"
              /\ pending_chunks' = 0
              /\ Len(delivered') = Len(gen_calls)]_vars

\* a second generation is outstanding after a first message sent in several chunks
C21_Witness ==
    /\ spc = "gen" /\ outstanding = 1
    /\ Len(gen_calls) = 2 /\ Len(delivered) = 1
    /\ chunks_of(last_content) > 1

\* C25: a conversation of n >= 1 agents and T >= 0 turns that completes
\* returns the count 1 + T*(n-1), the number of generation calls made and of
\* messages delivered, and at least 1.
C25_MessageCount ==
    (spc = "returned" /\ Len(agent_names) >= 1) =>
        /\ result = 1 + turns * (Len(agent_names) - 1)
        /\ result = Len(gen_calls)
        /\ result = Len(delivered)
        /\ result >= 1

\* a conversation of three agents over two turns completed in random order
C25_Witness ==
    /\ spc = "returned"
    /\ Len(agent_names) = 3 /\ turns = 2 /\ random_order
    /\ result = 5

\* C30: create_agent_webhooks finds every agent that create_agents made under
\* its key, so that each agent has a webhook when the first generation call
\* is made.
C30_EveryAgentBound ==
    /\ error # "KeyError"
    /\ gen_calls # <<>> => \A i \in 1..Len(agent_names) : agent_names[i] \in with_webhook

\* C29: every pass of the splitting loop that cuts a chunk off leaves a
\* strictly shorter content, so the loop ends, also when the only space in
\* the window is at index 0 or the content is all whitespace.
C29_SplitShortens ==
    [][(cpc' = "split" /\ chunks' # chunks) => Len(content') < Len(content)]_vars

\* a content that begins with its only space in the window was cut at index 0
C29_Witness ==
    /\ cpc = "done"
    /\ Len(chunks) >= 2
    /\ chunks[1] = <<>>
    /\ original[1] = " "

\* C24: the string truncate_message returns is no longer than max_length, and
\* is the message itself when the message fits.
C24_TruncatedWithinLimit ==
    tpc = "done" =>
        /\ Len(tout) <= tmax
        /\ Len(tmsg) <= tmax => tout = tmsg

\* C26: a parameter command leaves the list of persona templates persisted
\* for the invoking user as it was.
C26_ParametersKeepTemplates ==
    last_cmd.cmd \in {"set", "model"} =>
        file[last_cmd.user].templates = last_cmd.before

\* C28: a generation requested through the one-off query or the reply handler
\* is made for a persona whose active flag is true.
C28_InactiveNeverGenerates ==
    last_gen.user # "" => last_gen.active

\* C22: the payload of every get_ai_response call is the system message
\* followed by at most ten history entries, the last of which is the topic
\* in the user role; when the call has returned, the agent's history ends
\* with that topic in the user role and the answer in the assistant role.
C22_PayloadAndHistory ==
    \A h \in Askers :
        /\ apayload[h] # <<>> =>
              /\ apayload[h][1].role = "system"
              /\ Len(apayload[h]) - 1 \in 1..HistoryLimit
              /\ apayload[h][Len(apayload[h])] =
                    [role |-> "user", content |-> Question(h)]
        /\ ahist_after[h] # <<>> =>
              /\ Len(ahist_after[h]) >= 2
              /\ LastN(ahist_after[h], 2) =
                    <<[role |-> "user", content |-> Question(h)],
                      [role |-> "assistant", content |-> Answer(h)]>>

\* C27: while a simulation awaits a generation or a delivery, each of its
\* agents is in the agent table as the simulation made it, with the history
\* the simulation built.
C27_SimulationKeepsItsAgents ==
    \A s \in Sims :
        simpc[s] \in {"gen", "send", "sent"} =>
            \A i \in 1..Len(simnames[s]) :
                /\ agent_table[simnames[s][i]] = SimId(s)
                /\ ahist[simnames[s][i]] = simhist[s][simnames[s][i]]

\* C23: a message of the conversation arrives in the channel of the latest
\* bind returned for its identity name, whoever made that bind: in its own
\* channel as long as no other handler has bound the name elsewhere since,
\* and otherwise in the channel that handler asked for, the name having one
\* webhook throughout.
C23_DeliveredWhereLastBound ==
    /\ [](returned # <<>> => BotHooksNamed(ConvName) = {ConvHook})
    /\ [][Len(landed') > Len(landed) =>
            LET binds == binds_of(ConvName)
                into  == landed'[Len(landed')]
            IN  /\ into = binds[Len(binds)].channel
                /\ into # ConvChannel =>
                      \E i \in 2..Len(returned) :
                          /\ lower(returned[i].name) = ConvName
                          /\ returned[i].id = ConvHook
                          /\ returned[i].channel = into]_vars

\* a first message arrived in X, another handler bound the name to Y, the
\* next message arrived in Y
C23_Witness ==
    /\ landed = <<"X", "Y">>
    /\ returned # <<>> /\ ConvChannel = "X"
    /\ BotHooksNamed(ConvName) = {ConvHook}
    /\ \E i \in 2..Len(returned) :
          returned[i].id = ConvHook /\ returned[i].channel = "Y"
====
